---- MODULE Spec2Model ----
(***************************************************************************)
(* Model of the MSSQL -> PostgreSQL bulk migrator                          *)
(* (src/core/jobs/job-migration/main.go).                                  *)
(*                                                                         *)
(* The process state is the position of main/processDatabase, the two      *)
(* channels (jobs, fkChannel), the WaitGroup and every worker's position   *)
(* inside worker/migrateTable.  The target engine is modelled by the set   *)
(* of namespaces, the tables (existence, committed row count, primary      *)
(* key) and the installed foreign keys.  Every call that can return an     *)
(* error has a fault point; its outcome is either free (Spec) or fixed by  *)
(* a plan that is replayed over two runs (SpecRerun).                      *)
(***************************************************************************)
EXTENDS Integers, Sequences, FiniteSets, TLC

\* ------------------------------------------------------------------------
\* Program constants (scaled down) and model bounds
\* ------------------------------------------------------------------------
MaxWorkers == 2
BatchSize == 2
MaxRetries == 2
\* longest identifier of the target engine (63 in the source)
NameMax == 8

\* rows held by the largest source table
MaxRows == 3
\* number of operations that may fail in a replayed plan (SpecRerun)
MaxFaults == 2

SourceDBs == <<"vin", "exportacion">>

\* bug: the source password is not checked
requiredHosts == {"PG_HOST", "MSSQL_HOST"}

required == {"PG_HOST", "MSSQL_HOST", "MSSQL_PASS"}

\* ------------------------------------------------------------------------
\* The source side: catalogs, rows, primary keys, foreign keys
\* ------------------------------------------------------------------------
TA == <<"a">>
TB == <<"b">>
TC == <<"c">>
TX == <<"X", "_", "C", "T">>
TD == <<"d">>

\* TABLE_NAME column of INFORMATION_SCHEMA.TABLES, as the catalog returns it
\* (padded names included)
StdCatalog(db) ==
    IF db = "vin" THEN << TC >>
    ELSE << TA, <<"b", " ">>, <<"X", "_", "C", "T", " ">> >>

\* other source contents: a database without tables and one with more
\* tables than there are workers
WideCatalog(db) ==
    IF db = "vin" THEN << >>
    ELSE << TA, <<"b", " ">>, <<"X", "_", "C", "T", " ">>, TD >>

\* every table name the target can be asked about
TableNames == {TA, TB, TC, TX, TD}

DbOf(t) == IF t = TC THEN "vin" ELSE "exportacion"

\* number of rows of each source table
SrcRows(t) ==
    IF t = TA THEN BatchSize
    ELSE IF t = TB THEN MaxRows
    ELSE IF t = TC THEN 1
    ELSE 0

\* sys.indexes: primary key columns per table (<<>> when there is none)
SrcPK(t) ==
    IF t = TA THEN << <<"i", "d">> >>
    ELSE IF t = TC THEN << <<"i", "d">> >>
    ELSE << >>

\* sys.foreign_key_columns rows: (origin table, origin column, referenced
\* table, referenced column)
SrcFKRows(t) ==
    IF t = TB THEN << [col |-> <<"k">>, refTable |-> TA, refCol |-> <<"i", "d">>],
                      [col |-> <<"k", "_", "a">>, refTable |-> TA, refCol |-> <<"i", "d">>] >>
    ELSE IF t = TX THEN << [col |-> <<"k">>, refTable |-> TA, refCol |-> <<"i", "d">>] >>
    ELSE IF t = TC THEN << [col |-> <<"p">>, refTable |-> TC, refCol |-> <<"i", "d">>] >>
    ELSE IF t = TD THEN << [col |-> <<"k">>, refTable |-> TA, refCol |-> <<"i", "d">>] >>
    ELSE << >>

\* ------------------------------------------------------------------------
\* Pure helpers of main.go
\* ------------------------------------------------------------------------
RECURSIVE TrimLeft(_)
TrimLeft(s) == IF s # << >> /\ Head(s) = " " THEN TrimLeft(Tail(s)) ELSE s

RECURSIVE TrimRight(_)
TrimRight(s) ==
    IF s # << >> /\ s[Len(s)] = " " THEN TrimRight(SubSeq(s, 1, Len(s) - 1)) ELSE s

TrimSpace(s) == TrimLeft(TrimRight(s))

UpperChars ==
    <<"A", "B", "C", "D", "E", "F", "G", "H", "I", "J", "K", "L", "M",
      "N", "O", "P", "Q", "R", "S", "T", "U", "V", "W", "X", "Y", "Z">>
LowerChars ==
    <<"a", "b", "c", "d", "e", "f", "g", "h", "i", "j", "k", "l", "m",
      "n", "o", "p", "q", "r", "s", "t", "u", "v", "w", "x", "y", "z">>

ToLowerChar(c) ==
    IF \E i \in 1..Len(UpperChars) : UpperChars[i] = c
    THEN LowerChars[CHOOSE i \in 1..Len(UpperChars) : UpperChars[i] = c]
    ELSE c

ToLower(s) == [i \in 1..Len(s) |-> ToLowerChar(s[i])]

HasSuffix(s, suf) ==
    Len(s) >= Len(suf) /\ SubSeq(s, Len(s) - Len(suf) + 1, Len(s)) = suf

Contains(s, sub) ==
    \E i \in 1..(Len(s) - Len(sub) + 1) : SubSeq(s, i, i + Len(sub) - 1) = sub

ignoredList ==
    { <<"c","h","a","n","g","e","_","t","a","b","l","e","s">>,
      <<"d","d","l","_","h","i","s","t","o","r","y">>,
      <<"l","s","n","_","t","i","m","e","_","m","a","p","p","i","n","g">>,
      <<"c","a","p","t","u","r","e","d","_","c","o","l","u","m","n","s">>,
      <<"i","n","d","e","x","_","c","o","l","u","m","n","s">>,
      <<"c","o","m","a","n","d","o","s">> }

isIgnoredTable(tableName) ==
    LET t == ToLower(tableName) IN
    \/ t = <<"d","t","p","r","o","p","e","r","t","i","e","s">>
    \/ t = <<"s","y","s","d","i","a","g","r","a","m","s">>
    \/ t = <<"s","y","s","t","r","a","n","s","c","h","e","m","a","s">>
    \/ HasSuffix(t, <<"_", "c", "t">>)
    \/ Contains(t, <<"_", "c", "t", "_">>)
    \/ t \in ignoredList

\* bug: the ignore policy is not applied
KeepAll(t) == TRUE

\* the condition under which a catalog row is appended to the list (line 147)
Keep(t) == ~isIgnoredTable(t)

\* the table list built by processDatabase from the catalog rows
RECURSIVE FilterTables(_)
FilterTables(names) ==
    IF names = << >> THEN << >>
    ELSE LET t == TrimSpace(Head(names)) IN
         IF Keep(t) THEN <<t>> \o FilterTables(Tail(names))
         ELSE FilterTables(Tail(names))

\* fmt.Sprintf("fk_%s_%s_%s", tableName, col, refTable)
FkName(tableName, col, refTable) ==
    <<"f", "k", "_">> \o tableName \o <<"_">> \o col \o <<"_">> \o refTable

\* if len(name) > 63 { name = name[:63] }
Truncate(name) == IF Len(name) > NameMax THEN SubSeq(name, 1, NameMax) ELSE name

\* a foreign-key descriptor as built by getForeignKeys
ForeignKeySQL(tableName, r) ==
    [ConstraintName |-> Truncate(FkName(tableName, r.col, r.refTable)),
     tab |-> tableName, col |-> r.col, refTable |-> r.refTable, refCol |-> r.refCol]

getForeignKeys(tableName) ==
    [i \in 1..Len(SrcFKRows(tableName)) |-> ForeignKeySQL(tableName, SrcFKRows(tableName)[i])]

getPrimaryKeyColumns(tableName) == SrcPK(tableName)

Range(s) == {s[i] : i \in 1..Len(s)}

RECURSIVE Flatten(_)
Flatten(ss) == IF ss = << >> THEN << >> ELSE Head(ss) \o Flatten(Tail(ss))

\* ------------------------------------------------------------------------
\* The type mapper (lines 61-96) and the value coercion (lines 246-278)
\* ------------------------------------------------------------------------
\* length of a raw UNIQUEIDENTIFIER value (line 259)
UuidLen == 16
\* longest byte sequence and text of a cell
MaxLen == 2
\* the bytes a cell is made of: 0x00, 0x01 and a letter
Bytes == {0, 1, 65}

ToUpperChar(c) ==
    IF \E i \in 1..Len(LowerChars) : LowerChars[i] = c
    THEN UpperChars[CHOOSE i \in 1..Len(LowerChars) : LowerChars[i] = c]
    ELSE c

ToUpper(s) == [i \in 1..Len(s) |-> ToUpperChar(s[i])]

\* the cases of the switch of getPostgresType
SmallintNames ==
    {<<"T", "I", "N", "Y", "I", "N", "T">>,
     <<"S", "M", "A", "L", "L", "I", "N", "T">>}
IntegerNames ==
    {<<"I", "N", "T">>,
     <<"I", "N", "T", "E", "G", "E", "R">>}
BigintNames == {<<"B", "I", "G", "I", "N", "T">>}
BitNames == {<<"B", "I", "T">>}
RealNames == {<<"R", "E", "A", "L">>}
FloatNames == {<<"F", "L", "O", "A", "T">>}
NumericNames ==
    {<<"D", "E", "C", "I", "M", "A", "L">>,
     <<"N", "U", "M", "E", "R", "I", "C">>,
     <<"M", "O", "N", "E", "Y">>,
     <<"S", "M", "A", "L", "L", "M", "O", "N", "E", "Y">>}
DateNames == {<<"D", "A", "T", "E">>}
TimestampNames ==
    {<<"D", "A", "T", "E", "T", "I", "M", "E">>,
     <<"D", "A", "T", "E", "T", "I", "M", "E", "2">>,
     <<"S", "M", "A", "L", "L", "D", "A", "T", "E", "T", "I", "M", "E">>}
TimeNames == {<<"T", "I", "M", "E">>}
TextNames ==
    {<<"C", "H", "A", "R">>,
     <<"N", "C", "H", "A", "R">>,
     <<"V", "A", "R", "C", "H", "A", "R">>,
     <<"N", "V", "A", "R", "C", "H", "A", "R">>,
     <<"T", "E", "X", "T">>,
     <<"N", "T", "E", "X", "T">>,
     <<"S", "Y", "S", "N", "A", "M", "E">>}
ByteaNames ==
    {<<"B", "I", "N", "A", "R", "Y">>,
     <<"V", "A", "R", "B", "I", "N", "A", "R", "Y">>,
     <<"I", "M", "A", "G", "E">>,
     <<"T", "I", "M", "E", "S", "T", "A", "M", "P", "_", "S", "Q", "L">>}
UuidNames == {<<"U", "N", "I", "Q", "U", "E", "I", "D", "E", "N", "T", "I", "F", "I", "E", "R">>}

\* a target column type: its name and, for NUMERIC(p, s), its arguments
PgType(name, args) == [name |-> name, args |-> args]

getPostgresType(mssqlType, precision, scale) ==
    LET t == ToUpper(mssqlType) IN
    IF t \in SmallintNames THEN PgType("SMALLINT", << >>)
    ELSE IF t \in IntegerNames THEN PgType("INTEGER", << >>)
    ELSE IF t \in BigintNames THEN PgType("BIGINT", << >>)
    ELSE IF t \in BitNames THEN PgType("BOOLEAN", << >>)
    ELSE IF t \in RealNames THEN PgType("REAL", << >>)
    ELSE IF t \in FloatNames THEN PgType("DOUBLE PRECISION", << >>)
    ELSE IF t \in NumericNames
         THEN IF precision > 0 THEN PgType("NUMERIC", <<precision, scale>>)
              ELSE PgType("NUMERIC", << >>)
    ELSE IF t \in DateNames THEN PgType("DATE", << >>)
    ELSE IF t \in TimestampNames THEN PgType("TIMESTAMP", << >>)
    ELSE IF t \in TimeNames THEN PgType("TIME", << >>)
    ELSE IF t \in TextNames THEN PgType("TEXT", << >>)
    ELSE IF t \in ByteaNames THEN PgType("BYTEA", << >>)
    ELSE IF t \in UuidNames THEN PgType("UUID", << >>)
    ELSE PgType("TEXT", << >>)

\* type names the mapper has no case for, and names as a driver may spell
\* them: lower case, a user-defined type
OtherNames ==
    {<<"B", "O", "O", "L", "E", "A", "N">>,
     <<"X", "M", "L">>,
     <<"b", "i", "t">>,
     <<"v", "a", "r", "b", "i", "n", "a", "r", "y">>,
     <<"T", "e", "x", "t">>,
     <<"B", "I", "N", "A", "R", "Y", "B", "L", "O", "B">>}

AllTypeNames ==
    SmallintNames \cup IntegerNames \cup BigintNames \cup BitNames \cup RealNames
        \cup FloatNames \cup NumericNames \cup DateNames \cup TimestampNames \cup TimeNames
        \cup TextNames \cup ByteaNames \cup UuidNames \cup OtherNames

\* a scanned or coerced value: nil, raw bytes, text, a boolean or a value of
\* another Go type (numbers, times)
Value(kind, b, f) == [kind |-> kind, b |-> b, f |-> f]
Nil == Value("nil", << >>, FALSE)
NoValue == Value("none", << >>, FALSE)

\* byte sequences of at most n bytes
RECURSIVE SeqsUpTo(_)
SeqsUpTo(n) ==
    IF n = 0 THEN {<< >>}
    ELSE LET shorter == SeqsUpTo(n - 1) IN
         shorter \cup {Append(s, b) : s \in {u \in shorter : Len(u) = n - 1}, b \in Bytes}

\* a raw value of UuidLen bytes
SampleUuid == [i \in 1..UuidLen |-> IF i = 1 THEN 171 ELSE i - 2]

Values ==
    {Nil} \cup {Value("bytes", b, FALSE) : b \in SeqsUpTo(MaxLen) \cup {SampleUuid}}
          \cup {Value("string", b, FALSE) : b \in SeqsUpTo(MaxLen)}
          \cup {Value("bool", << >>, f) : f \in BOOLEAN}
          \cup {Value("other", << >>, FALSE)}

\* strings.ReplaceAll(s, "\x00", "")
RECURSIVE StripNul(_)
StripNul(s) ==
    IF s = << >> THEN << >>
    ELSE IF Head(s) = 0 THEN StripNul(Tail(s))
    ELSE <<Head(s)>> \o StripNul(Tail(s))

\* the character of one hexadecimal digit: '0'..'9', 'a'..'f'
HexDigit(d) == IF d < 10 THEN 48 + d ELSE 87 + d

\* fmt.Sprintf("%x", bytes)
RECURSIVE Hex(_)
Hex(s) ==
    IF s = << >> THEN << >>
    ELSE <<HexDigit(Head(s) \div 16), HexDigit(Head(s) % 16)>> \o Hex(Tail(s))

\* fmt.Sprintf("%x-%x-%x-%x-%x", t[0:4], t[4:6], t[6:8], t[8:10], t[10:])
FormatUuid(t) ==
    Hex(SubSeq(t, 1, 4)) \o <<45>> \o Hex(SubSeq(t, 5, 6)) \o <<45>> \o Hex(SubSeq(t, 7, 8))
        \o <<45>> \o Hex(SubSeq(t, 9, 10)) \o <<45>> \o Hex(SubSeq(t, 11, Len(t)))

\* bug: every non-zero first byte is true
BitValueNonZero(t) == Len(t) > 0 /\ t[1] # 0

\* len(t) > 0 && t[0] == 1 (line 257)
BitValue(t) == Len(t) > 0 /\ t[1] = 1

\* the value handed to stmt.Exec for scanned value v of a column whose
\* driver type name is typeName (lines 248-277)
Coerce(typeName, v) ==
    IF v.kind = "nil" THEN Nil
    ELSE IF v.kind = "bytes"
    THEN IF typeName = <<"B", "I", "T">> \/ typeName = <<"B", "O", "O", "L", "E", "A", "N">>
         THEN Value("bool", << >>, BitValue(v.b))
         ELSE IF typeName = <<"U", "N", "I", "Q", "U", "E", "I", "D", "E", "N", "T", "I", "F", "I", "E", "R">>
         THEN IF Len(v.b) = UuidLen THEN Value("string", FormatUuid(v.b), FALSE) ELSE Nil
         ELSE IF Contains(typeName, <<"B", "I", "N", "A", "R", "Y">>)
                 \/ Contains(typeName, <<"I", "M", "A", "G", "E">>)
         THEN v
         ELSE Value("string", StripNul(v.b), FALSE)
    ELSE IF v.kind = "string" THEN Value("string", StripNul(v.b), FALSE)
    ELSE v

\* one column of one row: whether the driver reports column types
\* (i < len(colTypes)), the type name, its decimal size, the scanned value
NoCell == [typed |-> FALSE, typeName |-> << >>, precision |-> 0, scale |-> 0, v |-> NoValue]
NoType == PgType("", << >>)

Cells ==
    [typed : BOOLEAN, typeName : AllTypeNames, precision : {0, 5}, scale : {2}, v : Values]


\* ------------------------------------------------------------------------
\* State
\* ------------------------------------------------------------------------
VARIABLES
    env,        \* environment variables that are set
    record,     \* TRUE: the failures of the first run are kept in plan
    plan,       \* fault points that failed in the first run
    nfaults,    \* operations that failed so far in the first run
    run,        \* number of the current run of the process
    snapshot,   \* target state as the current run found it
    exit,       \* "running", "ok" (main returned), "fatal" (log.Fatalf), "panic"
    pcMain,     \* position of main / processDatabase / applyForeignKeys
    dbi,        \* index into SourceDBs of the database being processed
    tables,     \* processDatabase: the filtered table list
    enq,        \* processDatabase: tables sent to jobs so far
    jobs,       \* channel jobs (buffered)
    jobsClosed,
    fkChannel,  \* channel fkChannel (buffered)
    fkClosed,
    wg,         \* sync.WaitGroup counter
    wk,         \* per worker: position and locals of worker / migrateTable
    allFks,     \* applyForeignKeys: descriptors still to execute
    schemas,    \* target: existing namespaces
    tbl,        \* target: per table existence, committed rows, primary key
    fks,        \* target: installed foreign-key constraints
    issued,     \* per table: kinds of target statements issued in this run
    attempts,   \* per table: source SELECTs issued in this run
    returned,   \* tables whose migrateTable call has returned in this run
    fkExec,     \* FK statements executed in this run, in order
    spawned,    \* databases whose worker pool was started in this run
    nsTried,    \* databases whose CREATE SCHEMA was issued in this run
    log,        \* log lines written in this run
    cell,       \* the column and scanned value the coercion is applied to
    pgType,     \* the target type declared for the column of cell
    finalVal,   \* the value handed to the insert for cell
    catalog     \* per source database: the rows of its table catalog

coerceVars == <<cell, pgType, finalVal>>
envVars == <<env, record, run, snapshot, coerceVars, catalog>>
faultVars == <<plan, nfaults>>
chanVars == <<jobs, jobsClosed, fkChannel, fkClosed, wg>>
targetVars == <<schemas, tbl, fks>>
histVars == <<issued, attempts, returned, fkExec, spawned, nsTried>>
vars == <<env, record, plan, nfaults, run, snapshot, exit, pcMain, dbi, tables, enq,
          jobs, jobsClosed, fkChannel, fkClosed, wg, wk, allFks,
          schemas, tbl, fks, issued, attempts, returned, fkExec, spawned, nsTried, log,
          cell, pgType, finalVal, catalog>>

Workers == 1..MaxWorkers
NDB == Len(SourceDBs)
curDB == SourceDBs[dbi]

\* a fault point: the operation, the object it acts on, an ordinal
FP(op, obj, i) == <<op, obj, i>>

\* The calls of one step that return an error: one of the sets in S.  In the
\* first run any of them within the budget of MaxFaults failures; a later run
\* repeats the outcomes of the first.
Outcomes(S) ==
    IF run > 1 THEN {(UNION S) \cap plan}
    ELSE {F \in S : nfaults + Cardinality(F) <= MaxFaults}

Account(F) ==
    /\ nfaults' = IF run > 1 THEN nfaults ELSE nfaults + Cardinality(F)
    /\ plan' = IF record /\ run = 1 THEN plan \cup F ELSE plan

\* no call, one call, ... of the step fails
NoneOrOne(P) == {{}} \cup {{f} : f \in P}

NoTable == [exists |-> FALSE, rows |-> 0, pk |-> FALSE]
NewTable == [exists |-> TRUE, rows |-> 0, pk |-> FALSE]

IdleWorker ==
    [pc |-> "off", table |-> << >>, attempt |-> 0, pos |-> 0, count |-> 0,
     tx |-> "none", pending |-> 0, stmt |-> "none", dstmt |-> "none", fks |-> << >>,
     inTx |-> 0, begun |-> 0, commits |-> 0, failed |-> FALSE]

\* the constraint a successful FK statement leaves on the target
Constraint(fk) ==
    [tab |-> fk.tab, ConstraintName |-> fk.ConstraintName, col |-> fk.col,
     refTable |-> fk.refTable]

\* the constraints a sequence of FK statements leaves when none fails for a
\* reason other than its name being taken
RECURSIVE InstallAll(_, _)
InstallAll(seq, acc) ==
    IF seq = << >> THEN acc
    ELSE LET fk == Head(seq) IN
         InstallAll(Tail(seq),
                    IF \E c \in acc : c.tab = fk.tab /\ c.ConstraintName = fk.ConstraintName
                    THEN acc ELSE acc \cup {Constraint(fk)})

Catalog(db) == catalog[db]

\* the tables of all catalogs that are handed to the workers
KeptTables == UNION {Range(FilterTables(Catalog(SourceDBs[k]))) : k \in 1..Len(SourceDBs)}

\* target left by an earlier complete run without failures
MigratedTbl ==
    [t \in TableNames |->
        IF t \notin KeptTables THEN NoTable
        ELSE [exists |-> TRUE, rows |-> SrcRows(t), pk |-> SrcPK(t) # << >>]]

MigratedFks ==
    UNION {InstallAll(getForeignKeys(t), {}) : t \in KeptTables}

Target == [schemas |-> schemas, tbl |-> tbl, fks |-> fks]

InitProcess ==
    /\ exit = "running"
    /\ pcMain = "validate"
    /\ dbi = 1
    /\ tables = << >>
    /\ enq = 0
    /\ jobs = << >>
    /\ jobsClosed = FALSE
    /\ fkChannel = << >>
    /\ fkClosed = FALSE
    /\ wg = 0
    /\ wk = [w \in Workers |-> IdleWorker]
    /\ allFks = << >>
    /\ issued = [t \in TableNames |-> {}]
    /\ attempts = [t \in TableNames |-> 0]
    /\ returned = {}
    /\ fkExec = << >>
    /\ spawned = {}
    /\ nsTried = {}
    /\ log = {}

\* one run with free outcomes, on an empty target or on the target an
\* earlier run left
Init ==
    /\ env \in {required} \cup {required \ {v} : v \in required}
    /\ record = FALSE
    /\ plan = {}
    /\ nfaults = 0
    /\ run = 1
    /\ catalog = [db \in Range(SourceDBs) |-> StdCatalog(db)]
    /\ InitProcess
    /\ \/ schemas = {} /\ tbl = [t \in TableNames |-> NoTable] /\ fks = {}
       \/ schemas = Range(SourceDBs) /\ tbl = MigratedTbl /\ fks = MigratedFks
    /\ snapshot = Target
    /\ cell = NoCell /\ pgType = NoType /\ finalVal = NoValue

\* ------------------------------------------------------------------------
\* main (lines 30-48)
\* ------------------------------------------------------------------------
Validate ==
    /\ exit = "running" /\ pcMain = "validate"
    /\ IF required \subseteq env
       THEN /\ pcMain' = "pgOpen"
            /\ UNCHANGED <<exit, log>>
       ELSE /\ exit' = "fatal"
            /\ pcMain' = "exited"
            /\ log' = log \cup {<<"FATAL", <<"env">>>>}
    /\ UNCHANGED <<envVars, faultVars, dbi, tables, enq, chanVars, wk, allFks, targetVars,
                   histVars>>

\* bug: main stops at the first database that returns
ReturnToMainStop ==
    /\ dbi' = dbi
    /\ pcMain' = "exited"
    /\ exit' = "ok"

\* processDatabase returns: main takes the next database or returns
ReturnToMain ==
    IF dbi < NDB
    THEN /\ dbi' = dbi + 1
         /\ pcMain' = "pgOpen"
         /\ exit' = exit
    ELSE /\ dbi' = dbi
         /\ pcMain' = "exited"
         /\ exit' = "ok"

\* ------------------------------------------------------------------------
\* processDatabase (lines 98-174)
\* ------------------------------------------------------------------------
\* sql.Open on the target and the session SET synchronous_commit
PgOpen ==
    /\ exit = "running" /\ pcMain = "pgOpen"
    /\ \E F \in Outcomes(NoneOrOne({FP("pgOpen", <<curDB>>, 0), FP("sync", <<curDB>>, 0)})) :
        LET openFails == FP("pgOpen", <<curDB>>, 0) \in F
            syncFails == FP("sync", <<curDB>>, 0) \in F IN
        /\ Account(F)
        /\ IF openFails
           THEN /\ exit' = "fatal"
                /\ pcMain' = "exited"
                /\ log' = log \cup {<<"FATAL", <<curDB>>>>}
           ELSE /\ pcMain' = "schema"
                /\ exit' = exit
                /\ log' = IF syncFails THEN log \cup {<<"WARN sync", <<curDB>>>>} ELSE log
    /\ UNCHANGED <<envVars, dbi, tables, enq, chanVars, wk, allFks, targetVars, histVars>>

\* bug: the namespace is never created
CreateSchemaSkipped ==
    /\ exit = "running" /\ pcMain = "schema"
    /\ pcMain' = "msOpen"
    /\ UNCHANGED <<envVars, faultVars, exit, dbi, tables, enq, chanVars, wk, allFks,
                   targetVars, histVars, log>>

\* CREATE SCHEMA IF NOT EXISTS
CreateSchema ==
    /\ exit = "running" /\ pcMain = "schema"
    /\ \E F \in Outcomes(NoneOrOne({FP("schema", <<curDB>>, 0)})) :
        /\ Account(F)
        /\ IF F # {}
           THEN /\ log' = log \cup {<<"WARN schema", <<curDB>>>>}
                /\ schemas' = schemas
           ELSE /\ schemas' = schemas \cup {curDB}
                /\ log' = log
    /\ pcMain' = "msOpen"
    /\ nsTried' = nsTried \cup {curDB}
    /\ UNCHANGED <<envVars, exit, dbi, tables, enq, chanVars, wk, allFks, tbl, fks,
                   issued, attempts, returned, fkExec, spawned>>

\* sql.Open on the source
MsOpen ==
    /\ exit = "running" /\ pcMain = "msOpen"
    /\ \E F \in Outcomes(NoneOrOne({FP("msOpen", <<curDB>>, 0)})) :
        /\ Account(F)
        /\ IF F # {}
           THEN /\ log' = log \cup {<<"ERROR mssql", <<curDB>>>>}
                /\ ReturnToMain
           ELSE /\ pcMain' = "list"
                /\ UNCHANGED <<exit, dbi, log>>
    /\ UNCHANGED <<envVars, tables, enq, chanVars, wk, allFks, targetVars, histVars>>

\* the catalog query, the filtered table list and the two channels
ListTables ==
    /\ exit = "running" /\ pcMain = "list"
    /\ \E F \in Outcomes(NoneOrOne({FP("list", <<curDB>>, 0)})) :
        /\ Account(F)
        /\ IF F # {}
           THEN /\ log' = log \cup {<<"ERROR list", <<curDB>>>>}
                /\ ReturnToMain
                /\ UNCHANGED <<tables, enq, chanVars>>
           ELSE /\ tables' = FilterTables(Catalog(curDB))
                /\ log' = log \cup {<<"INFO tables", <<curDB>>>>}
                /\ enq' = 0
                /\ jobs' = << >>
                /\ jobsClosed' = FALSE
                /\ fkChannel' = << >>
                /\ fkClosed' = FALSE
                /\ wg' = 0
                /\ pcMain' = "spawn"
                /\ UNCHANGED <<exit, dbi>>
    /\ UNCHANGED <<envVars, wk, allFks, targetVars, histVars>>

\* the loop starting MaxWorkers goroutines
Spawn ==
    /\ exit = "running" /\ pcMain = "spawn"
    /\ wg' = MaxWorkers
    /\ wk' = [w \in Workers |-> [IdleWorker EXCEPT !.pc = "recv"]]
    /\ spawned' = spawned \cup {curDB}
    /\ pcMain' = "enqueue"
    /\ UNCHANGED <<envVars, faultVars, exit, dbi, tables, enq, jobs, jobsClosed, fkChannel,
                   fkClosed, allFks, targetVars, issued, attempts, returned, fkExec, nsTried, log>>

\* jobs <- t, and close(jobs) after the last table
Enqueue ==
    /\ exit = "running" /\ pcMain = "enqueue"
    /\ IF enq < Len(tables)
       THEN /\ Len(jobs) < Len(tables)
            /\ jobs' = Append(jobs, tables[enq + 1])
            /\ enq' = enq + 1
            /\ UNCHANGED <<jobsClosed, pcMain>>
       ELSE /\ jobsClosed' = TRUE
            /\ pcMain' = "wait"
            /\ UNCHANGED <<jobs, enq>>
    /\ UNCHANGED <<envVars, faultVars, exit, dbi, tables, fkChannel, fkClosed, wg, wk,
                   allFks, targetVars, histVars, log>>

\* bug: the FK phase does not wait for the workers
WaitGroupDoneNoWait == TRUE

\* wg.Wait() returns
WaitGroupDone == wg = 0

\* wg.Wait, close(fkChannel) and the drain loop of applyForeignKeys
WaitWorkers ==
    /\ exit = "running" /\ pcMain = "wait"
    /\ WaitGroupDone
    /\ fkClosed' = TRUE
    /\ allFks' = Flatten(fkChannel)
    /\ fkChannel' = << >>
    /\ log' = log \cup {<<"INFO fks", <<curDB>>>>}
    /\ pcMain' = "applyFKs"
    /\ UNCHANGED <<envVars, faultVars, exit, dbi, tables, enq, jobs, jobsClosed, wg, wk,
                   targetVars, histVars>>

\* the target accepts a foreign key when both tables exist, the referenced
\* one has its key and the name is free on the table
FKAccepted(fk) ==
    /\ tbl[fk.tab].exists
    /\ tbl[fk.refTable].exists
    /\ tbl[fk.refTable].pk
    /\ ~\E c \in fks : c.tab = fk.tab /\ c.ConstraintName = fk.ConstraintName

\* applyForeignKeys (lines 341-346): one pg.Exec per descriptor
ApplyFK ==
    /\ exit = "running" /\ pcMain = "applyFKs"
    /\ IF allFks # << >>
       THEN LET fk == Head(allFks) IN
            /\ \E F \in Outcomes(NoneOrOne({FP("fk", fk.ConstraintName, Len(fkExec) + 1)})) :
                 /\ Account(F)
                 /\ fks' = IF F = {} /\ FKAccepted(fk) THEN fks \cup {Constraint(fk)} ELSE fks
                 /\ fkExec' = Append(fkExec, [db |-> curDB, fk |-> fk,
                                              ok |-> F = {} /\ FKAccepted(fk)])
            /\ allFks' = Tail(allFks)
            /\ UNCHANGED <<exit, dbi, pcMain>>
       ELSE /\ ReturnToMain
            /\ UNCHANGED <<allFks, fks, fkExec, faultVars>>
    /\ UNCHANGED <<envVars, tables, enq, chanVars, wk, schemas, tbl,
                   issued, attempts, returned, spawned, nsTried, log>>


\* ------------------------------------------------------------------------
\* worker (lines 176-184) and migrateTable (lines 186-307)
\* ------------------------------------------------------------------------
mainVars == <<pcMain, dbi, tables, enq, allFks>>

\* bug: a received table stays in the channel
ReceiveKeeps(q) == q

\* the channel after a receive: the head is gone (line 178)
Receive(q) == Tail(q)

\* for table := range jobs
Recv(w) ==
    /\ exit = "running" /\ wk[w].pc = "recv"
    /\ \/ /\ jobs # << >>
          /\ wk' = [wk EXCEPT ![w] = [IdleWorker EXCEPT !.pc = "query",
                                                       !.table = Head(jobs),
                                                       !.attempt = 1]]
          /\ jobs' = Receive(jobs)
          /\ wg' = wg
       \/ /\ jobs = << >> /\ jobsClosed
          /\ wk' = [wk EXCEPT ![w] = [IdleWorker EXCEPT !.pc = "exited"]]
          /\ wg' = wg - 1
          /\ jobs' = jobs
    /\ UNCHANGED <<envVars, faultVars, exit, mainVars, jobsClosed, fkChannel, fkClosed,
                   targetVars, histVars, log>>

\* migrateTable returns result to worker: the deferred stmt.Close runs, the
\* worker goes on to send the descriptors or to take the next table
Returns(w, result) ==
    IF wk[w].dstmt = "nil"
    THEN /\ exit' = "panic"
         /\ UNCHANGED <<wk, returned>>
    ELSE /\ wk' = [wk EXCEPT ![w] = [IdleWorker EXCEPT
                                         !.pc = IF Len(result) > 0 THEN "send" ELSE "recv",
                                         !.fks = result]]
         /\ returned' = returned \cup {wk[w].table}
         /\ exit' = exit

\* bug: one attempt too many
RetryAgainOffByOne(a) == a <= MaxRetries

\* the retry loop goes on after failed attempt a (line 190)
RetryAgain(a) == a < MaxRetries

\* bug: the read error is logged but the copy goes on
GiveUpNoReturn(w) ==
    /\ log' = log \cup {<<"ERROR read", wk[w].table>>}
    /\ wk' = [wk EXCEPT ![w].pc = "drop"]
    /\ UNCHANGED <<exit, returned>>

\* the read failed for good: log and return nil (lines 195-198)
GiveUp(w) ==
    /\ log' = log \cup {<<"ERROR read", wk[w].table>>}
    /\ Returns(w, << >>)

\* bug: the old table is not dropped
AfterOpenNoDrop == "create"

\* where control goes once the cursor is open: DROP TABLE (line 204)
AfterOpen == "drop"

\* one attempt of the source SELECT (lines 190-199)
Query(w) ==
    /\ exit = "running" /\ wk[w].pc = "query"
    /\ LET t == wk[w].table
           a == wk[w].attempt IN
       /\ attempts' = [attempts EXCEPT ![t] = @ + 1]
       /\ \E F \in Outcomes(NoneOrOne({FP("query", t, a)})) :
            /\ Account(F)
            /\ IF F = {}
               THEN /\ wk' = [wk EXCEPT ![w].pc = AfterOpen]
                    /\ UNCHANGED <<exit, returned, log>>
               ELSE IF RetryAgain(a)
               THEN /\ wk' = [wk EXCEPT ![w].attempt = a + 1]
                    /\ UNCHANGED <<exit, returned, log>>
               ELSE GiveUp(w)
    /\ UNCHANGED <<envVars, mainVars, chanVars, targetVars, issued, fkExec, spawned, nsTried>>

\* DROP TABLE IF EXISTS ... CASCADE (line 204), its error is not looked at
Drop(w) ==
    /\ exit = "running" /\ wk[w].pc = "drop"
    /\ LET t == wk[w].table IN
       /\ issued' = [issued EXCEPT ![t] = @ \cup {"drop"}]
       /\ \E F \in Outcomes(NoneOrOne({FP("drop", t, 0)})) :
            /\ Account(F)
            /\ IF F # {}
               THEN UNCHANGED <<tbl, fks>>
               ELSE /\ tbl' = [tbl EXCEPT ![t] = NoTable]
                    /\ fks' = {c \in fks : c.tab # t /\ c.refTable # t}
    /\ wk' = [wk EXCEPT ![w].pc = "create"]
    /\ UNCHANGED <<envVars, exit, mainVars, chanVars, schemas,
                   attempts, returned, fkExec, spawned, nsTried, log>>

\* bug: the copy goes on after a failed CREATE TABLE
CreateFailedGoesOn(w) ==
    /\ wk' = [wk EXCEPT ![w].pc = "begin"]
    /\ UNCHANGED <<exit, returned>>

\* CREATE TABLE failed: return nil (line 224)
CreateFailed(w) == Returns(w, << >>)

\* CREATE TABLE (lines 206-225)
Create(w) ==
    /\ exit = "running" /\ wk[w].pc = "create"
    /\ LET t == wk[w].table IN
       /\ issued' = [issued EXCEPT ![t] = @ \cup {"create"}]
       /\ \E F \in Outcomes(NoneOrOne({FP("create", t, 0)})) :
            /\ Account(F)
            /\ IF F = {} /\ DbOf(t) \in schemas /\ ~tbl[t].exists
               THEN /\ tbl' = [tbl EXCEPT ![t] = NewTable]
                    /\ wk' = [wk EXCEPT ![w].pc = "begin"]
                    /\ UNCHANGED <<exit, returned, log>>
               ELSE /\ log' = log \cup {<<"ERROR create", t>>}
                    /\ tbl' = tbl
                    /\ CreateFailed(w)
    /\ UNCHANGED <<envVars, mainVars, chanVars, schemas, fks,
                   attempts, fkExec, spawned, nsTried>>

\* pg.Begin and tx.Exec(SET synchronous_commit) (lines 233-234); a failed
\* Begin leaves tx nil and tx.Exec dereferences it
Begin(w) ==
    /\ exit = "running" /\ wk[w].pc = "begin"
    /\ LET t == wk[w].table IN
       /\ issued' = [issued EXCEPT ![t] = @ \cup {"begin"}]
       /\ \E F \in Outcomes(NoneOrOne({FP("begin", t, 0)})) :
            /\ Account(F)
            /\ IF F # {}
               THEN /\ exit' = "panic"
                    /\ wk' = wk
               ELSE /\ wk' = [wk EXCEPT ![w].pc = "prepare", ![w].tx = "open",
                                        ![w].pending = 0, ![w].inTx = 0,
                                        ![w].begun = @ + 1]
                    /\ exit' = exit
    /\ UNCHANGED <<envVars, mainVars, chanVars, targetVars,
                   attempts, returned, fkExec, spawned, nsTried, log>>

\* tx.Prepare and defer stmt.Close (lines 240-241); a failed Prepare leaves
\* stmt nil
Prepare(w) ==
    /\ exit = "running" /\ wk[w].pc = "prepare"
    /\ \E F \in Outcomes(NoneOrOne({FP("prepare", wk[w].table, 0)})) :
         LET st == IF F # {} THEN "nil" ELSE "ok" IN
         /\ Account(F)
         /\ wk' = [wk EXCEPT ![w].pc = "rows", ![w].stmt = st, ![w].dstmt = st]
    /\ UNCHANGED <<envVars, exit, mainVars, chanVars, targetVars, histVars, log>>

\* bug: the final commit is left out
LoopExitNoCommit == "pk"

\* where control goes when rows.Next returns false: tx.Commit (line 292)
LoopExit == "commit"

\* bug: the batch is closed one row late
BatchFullLate(n) == n % (BatchSize + 1) = 0

\* count%BatchSize == 0 (line 285)
BatchFull(n) == n % BatchSize = 0

\* bug: an insert error ends the row loop
AfterExecStops(ok, n) ==
    IF ~ok THEN LoopExit ELSE IF BatchFull(n) THEN "batch" ELSE "rows"

\* where control goes after stmt.Exec: its error is swallowed, the row is
\* counted and the batch boundary tested (lines 280-285)
AfterExec(ok, n) == IF BatchFull(n) THEN "batch" ELSE "rows"

\* one iteration of the row loop (lines 243-285): rows.Next, rows.Scan, the
\* coercion, stmt.Exec and count++
NextRow(w) ==
    /\ exit = "running" /\ wk[w].pc = "rows"
    /\ LET t == wk[w].table
           i == wk[w].pos + 1 IN
       IF wk[w].pos >= SrcRows(t)
       THEN /\ wk' = [wk EXCEPT ![w].pc = LoopExit]
            /\ UNCHANGED <<exit, issued, faultVars>>
       ELSE \E F \in Outcomes(NoneOrOne({FP("next", t, i), FP("scan", t, i),
                                          FP("insert", t, i)})) :
            LET nextFails == FP("next", t, i) \in F
                scanFails == FP("scan", t, i) \in F
                execFails == FP("insert", t, i) \in F IN
            /\ Account(F)
            /\ IF nextFails
               THEN /\ wk' = [wk EXCEPT ![w].pc = LoopExit]
                    /\ UNCHANGED <<exit, issued>>
               ELSE IF scanFails
               THEN /\ wk' = [wk EXCEPT ![w].pos = i]
                    /\ UNCHANGED <<exit, issued>>
               ELSE IF wk[w].stmt = "nil"
               THEN /\ exit' = "panic"
                    /\ UNCHANGED <<wk, issued>>
               ELSE LET ok == ~execFails /\ wk[w].tx = "open" /\ tbl[t].exists
                        n == wk[w].count + 1 IN
                    /\ issued' = [issued EXCEPT ![t] = @ \cup {"insert"}]
                    /\ wk' = [wk EXCEPT
                                ![w].pos = i,
                                ![w].count = n,
                                ![w].inTx = @ + 1,
                                ![w].pending = IF ok THEN @ + 1 ELSE @,
                                ![w].tx = IF ok THEN @ ELSE "aborted",
                                ![w].failed = @ \/ ~ok,
                                ![w].pc = AfterExec(ok, n)]
                    /\ exit' = exit
    /\ UNCHANGED <<envVars, mainVars, chanVars, targetVars,
                   attempts, returned, fkExec, spawned, nsTried, log>>

\* bug: every commit adds the running row count, not the rows of its batch
CommittedCount(w, fails) ==
    IF ~fails /\ wk[w].tx = "open" /\ tbl[wk[w].table].exists
    THEN [tbl EXCEPT ![wk[w].table].rows = @ + wk[w].count]
    ELSE tbl

\* what tx.Commit leaves in the table: the pending rows of a healthy
\* transaction, nothing of an aborted one
Committed(w, fails) ==
    IF ~fails /\ wk[w].tx = "open" /\ tbl[wk[w].table].exists
    THEN [tbl EXCEPT ![wk[w].table].rows = @ + wk[w].pending]
    ELSE tbl

\* the batch boundary (lines 285-290): Commit, Begin, SET, Prepare
Batch(w) ==
    /\ exit = "running" /\ wk[w].pc = "batch"
    /\ LET t == wk[w].table
           k == wk[w].count IN
       /\ issued' = [issued EXCEPT ![t] = @ \cup {"commit", "begin"}]
       /\ \E F \in Outcomes({{}, {FP("commit", t, k)}, {FP("begin", t, k)},
                              {FP("prepare", t, k)},
                              {FP("commit", t, k), FP("begin", t, k)},
                              {FP("commit", t, k), FP("prepare", t, k)}}) :
            LET commitFails == FP("commit", t, k) \in F
                beginFails == FP("begin", t, k) \in F
                prepFails == FP("prepare", t, k) \in F IN
            /\ Account(F)
            /\ tbl' = Committed(w, commitFails)
            /\ IF beginFails
               THEN /\ exit' = "panic"
                    /\ wk' = [wk EXCEPT ![w].tx = "none", ![w].pending = 0,
                                        ![w].commits = @ + 1]
               ELSE /\ wk' = [wk EXCEPT ![w].pc = "rows", ![w].tx = "open",
                                        ![w].pending = 0, ![w].inTx = 0,
                                        ![w].commits = @ + 1, ![w].begun = @ + 1,
                                        ![w].stmt = IF prepFails THEN "nil" ELSE "ok"]
                    /\ exit' = exit
    /\ UNCHANGED <<envVars, mainVars, chanVars, schemas, fks,
                   attempts, returned, fkExec, spawned, nsTried, log>>

\* the final tx.Commit (line 292)
Commit(w) ==
    /\ exit = "running" /\ wk[w].pc = "commit"
    /\ LET t == wk[w].table IN
       /\ issued' = [issued EXCEPT ![t] = @ \cup {"commit", "finalCommit"}]
       /\ \E F \in Outcomes(NoneOrOne({FP("commit", t, 0)})) :
            /\ Account(F)
            /\ tbl' = Committed(w, F # {})
    /\ wk' = [wk EXCEPT ![w].pc = "pk", ![w].tx = "none", ![w].pending = 0,
                         ![w].commits = @ + 1]
    /\ UNCHANGED <<envVars, exit, mainVars, chanVars, schemas, fks,
                   attempts, returned, fkExec, spawned, nsTried, log>>

\* getPrimaryKeyColumns and ALTER TABLE ... PRIMARY KEY (lines 294-304)
InstallPK(w) ==
    /\ exit = "running" /\ wk[w].pc = "pk"
    /\ LET t == wk[w].table IN
       /\ \E F \in Outcomes(NoneOrOne({FP("pkq", t, 0)} \cup
                                        (IF getPrimaryKeyColumns(t) # << >>
                                         THEN {FP("pk", t, 0)} ELSE {}))) :
            LET queryFails == FP("pkq", t, 0) \in F
                fails == FP("pk", t, 0) \in F
                pkCols == IF queryFails THEN << >> ELSE getPrimaryKeyColumns(t) IN
            /\ Account(F)
            /\ IF Len(pkCols) > 0
               THEN /\ issued' = [issued EXCEPT ![t] = @ \cup {"pk"}]
                    /\ tbl' = IF ~fails /\ tbl[t].exists /\ ~tbl[t].pk
                              THEN [tbl EXCEPT ![t].pk = TRUE]
                              ELSE tbl
               ELSE UNCHANGED <<issued, tbl>>
       /\ log' = IF wk[w].count > 0 THEN log \cup {<<"OK rows", t>>} ELSE log
    /\ wk' = [wk EXCEPT ![w].pc = "fkq"]
    /\ UNCHANGED <<envVars, exit, mainVars, chanVars, schemas, fks,
                   attempts, returned, fkExec, spawned, nsTried>>

\* return getForeignKeys(...) (line 306)
ReturnFKs(w) ==
    /\ exit = "running" /\ wk[w].pc = "fkq"
    /\ \E F \in Outcomes(NoneOrOne({FP("fkq", wk[w].table, 0)})) :
         /\ Account(F)
         /\ Returns(w, IF F # {} THEN << >> ELSE getForeignKeys(wk[w].table))
    /\ UNCHANGED <<envVars, mainVars, chanVars, targetVars,
                   issued, attempts, fkExec, spawned, nsTried, log>>

\* bug: the collector channel is unbuffered, it holds no message
FkCapUnbuffered == Len(<< >>)

\* capacity of fkChannel: make(chan []ForeignKeySQL, len(tables)) (line 155)
FkCap == Len(tables)

\* fkChan <- fks (lines 180-182)
Send(w) ==
    /\ exit = "running" /\ wk[w].pc = "send"
    /\ Len(fkChannel) < FkCap
    /\ fkChannel' = Append(fkChannel, wk[w].fks)
    /\ wk' = [wk EXCEPT ![w] = [IdleWorker EXCEPT !.pc = "recv"]]
    /\ UNCHANGED <<envVars, faultVars, exit, mainVars, jobs, jobsClosed, fkClosed, wg,
                   targetVars, histVars, log>>

WorkerStep(w) ==
    \/ Recv(w) \/ Query(w) \/ Drop(w) \/ Create(w) \/ Begin(w) \/ Prepare(w)
    \/ NextRow(w) \/ Batch(w) \/ Commit(w) \/ InstallPK(w) \/ ReturnFKs(w) \/ Send(w)

Next ==
    \/ Validate \/ PgOpen \/ CreateSchema \/ MsOpen \/ ListTables
    \/ Spawn \/ Enqueue \/ WaitWorkers \/ ApplyFK
    \/ \E w \in Workers : WorkerStep(w)

Spec == Init /\ [][Next]_vars


\* ------------------------------------------------------------------------
\* The run under the scheduler: main and every worker goroutine that can
\* take a step eventually takes one; sources with no table and with more
\* tables than workers
\* ------------------------------------------------------------------------
MainStep ==
    \/ Validate \/ PgOpen \/ CreateSchema \/ MsOpen \/ ListTables
    \/ Spawn \/ Enqueue \/ WaitWorkers \/ ApplyFK

InitLive ==
    /\ env = required
    /\ record = FALSE
    /\ plan = {}
    /\ nfaults = 0
    /\ run = 1
    /\ catalog \in {[db \in Range(SourceDBs) |-> StdCatalog(db)],
                    [db \in Range(SourceDBs) |-> WideCatalog(db)]}
    /\ InitProcess
    /\ schemas = {} /\ tbl = [t \in TableNames |-> NoTable] /\ fks = {}
    /\ snapshot = Target
    /\ cell = NoCell /\ pgType = NoType /\ finalVal = NoValue

SpecLive ==
    /\ InitLive /\ [][Next]_vars
    /\ WF_vars(MainStep)
    /\ \A w \in Workers : WF_vars(WorkerStep(w))


\* ------------------------------------------------------------------------
\* Two runs back-to-back with the same operation outcomes
\* ------------------------------------------------------------------------
InitRerun ==
    /\ env = required
    /\ record = TRUE
    /\ plan = {}
    /\ nfaults = 0
    /\ run = 1
    /\ catalog = [db \in Range(SourceDBs) |-> StdCatalog(db)]
    /\ InitProcess
    /\ schemas = {} /\ tbl = [t \in TableNames |-> NoTable] /\ fks = {}
    /\ snapshot = Target
    /\ cell = NoCell /\ pgType = NoType /\ finalVal = NoValue

\* the process is started again after main returned
Rerun ==
    /\ exit = "ok" /\ run = 1 /\ record
    /\ run' = 2
    /\ snapshot' = Target
    /\ exit' = "running"
    /\ pcMain' = "validate"
    /\ dbi' = 1
    /\ tables' = << >>
    /\ enq' = 0
    /\ jobs' = << >>
    /\ jobsClosed' = FALSE
    /\ fkChannel' = << >>
    /\ fkClosed' = FALSE
    /\ wg' = 0
    /\ wk' = [w \in Workers |-> IdleWorker]
    /\ allFks' = << >>
    /\ issued' = [t \in TableNames |-> {}]
    /\ attempts' = [t \in TableNames |-> 0]
    /\ returned' = {}
    /\ fkExec' = << >>
    /\ spawned' = {}
    /\ nsTried' = {}
    /\ log' = {}
    /\ UNCHANGED <<env, record, faultVars, targetVars, coerceVars, catalog>>

NextRerun == Next \/ Rerun

SpecRerun == InitRerun /\ [][NextRerun]_vars


\* ------------------------------------------------------------------------
\* One cell through the type mapper and the coercion, for every type name
\* and every shape of value
\* ------------------------------------------------------------------------
processVars ==
    <<env, record, plan, nfaults, run, snapshot, exit, pcMain, dbi, tables, enq,
      jobs, jobsClosed, fkChannel, fkClosed, wg, wk, allFks,
      schemas, tbl, fks, issued, attempts, returned, fkExec, spawned, nsTried, log,
      catalog>>

InitCoerce ==
    /\ env = required
    /\ record = FALSE
    /\ plan = {}
    /\ nfaults = 0
    /\ run = 1
    /\ catalog = [db \in Range(SourceDBs) |-> StdCatalog(db)]
    /\ InitProcess
    /\ schemas = {} /\ tbl = [t \in TableNames |-> NoTable] /\ fks = {}
    /\ snapshot = Target
    /\ cell \in Cells
    /\ pgType = NoType
    /\ finalVal = NoValue

\* the column type of the CREATE TABLE statement (lines 208-212)
DeclareColumn ==
    /\ cell # NoCell /\ pgType = NoType
    /\ pgType' = IF cell.typed
                 THEN getPostgresType(cell.typeName, cell.precision, cell.scale)
                 ELSE PgType("TEXT", << >>)
    /\ UNCHANGED <<processVars, cell, finalVal>>

\* the coercion of the scanned value (lines 247-277)
CoerceValue ==
    /\ pgType # NoType /\ finalVal = NoValue
    /\ finalVal' = Coerce(IF cell.typed THEN ToUpper(cell.typeName) ELSE << >>, cell.v)
    /\ UNCHANGED <<processVars, cell, pgType>>

NextCoerce == DeclareColumn \/ CoerceValue

SpecCoerce == InitCoerce /\ [][NextCoerce]_vars


\* ------------------------------------------------------------------------
\* Properties
\* ------------------------------------------------------------------------
\* the tables of database d that are handed to the workers
NonIgnored(d) == Range(FilterTables(Catalog(d)))

\* this step executes a foreign-key statement
FKStep == Len(fkExec') > Len(fkExec)

\* the source cursor of t has been opened in this run
Opened(t) == issued[t] # {} \/ \E w \in Workers : wk[w].table = t /\ wk[w].pc = "drop"

\* every descriptor a table copy has handed over in this run
Emitted ==
    Range(Flatten(fkChannel)) \cup Range(allFks) \cup {fkExec[i].fk : i \in 1..Len(fkExec)}
        \cup UNION {Range(wk[w].fks) : w \in Workers}

\* database d was given up at the source connection or the catalog query
Skipped(d) == <<"ERROR mssql", <<d>>>> \in log \/ <<"ERROR list", <<d>>>> \in log

\* C1: within one source database no foreign-key statement is executed
\* before every migrateTable call of that database has returned and every
\* worker has exited, whatever the interleaving of the workers.
C1_FKAfterAllCopies ==
    [][FKStep =>
          /\ NonIgnored(curDB) \subseteq returned
          /\ \A w \in Workers : wk[w].pc = "exited"
          /\ fkExec'[Len(fkExec')].db = curDB
          /\ DbOf(fkExec'[Len(fkExec')].fk.tab) = curDB]_vars

C1_Witness ==
    /\ fkExec # << >>
    /\ Cardinality(NonIgnored(fkExec[Len(fkExec)].db)) > 1
    /\ fkExec[Len(fkExec)].fk.tab # fkExec[Len(fkExec)].fk.refTable

\* C2 as stated: once a foreign-key statement has been executed, every
\* table of every source database of the run has been copied.
C2_FKAfterAllDatabases ==
    fkExec # << >> => \A k \in 1..NDB : NonIgnored(SourceDBs[k]) \subseteq returned

\* C2 amended: a foreign key of a database is executed only after the table
\* copies of that database and of the databases processed before it have
\* returned; no table of a later database has been copied at that time.
C2_FKAfterOwnAndEarlier ==
    [][FKStep =>
          \A k \in 1..NDB :
             /\ (k <= dbi /\ SourceDBs[k] \in spawned) =>
                    NonIgnored(SourceDBs[k]) \subseteq returned
             /\ k > dbi => (\A t \in NonIgnored(SourceDBs[k]) : t \notin returned /\ attempts[t] = 0)]_vars

C2_Witness ==
    /\ Len(fkExec) >= 2
    /\ fkExec[1].db = SourceDBs[1]
    /\ fkExec[Len(fkExec)].db = SourceDBs[NDB]

\* C3: the primary-key statement of a table is issued only after the final
\* commit of its copy, and after it no row is inserted into the table and no
\* commit adds rows to it.
C3_PKAfterFinalCommit ==
    [][\A t \in TableNames :
          /\ ("pk" \in issued'[t] /\ "pk" \notin issued[t]) => "finalCommit" \in issued[t]
          /\ "pk" \in issued[t] =>
                /\ tbl'[t].rows = tbl[t].rows
                /\ ~\E w \in Workers : /\ wk[w].table = t /\ wk'[w].table = t
                                       /\ wk'[w].count > wk[w].count]_vars

C3_Witness ==
    \E t \in TableNames :
        /\ "pk" \in issued[t] /\ "insert" \in issued[t]
        /\ tbl[t].pk /\ tbl[t].rows = SrcRows(t) /\ SrcRows(t) > 0

\* C4 as stated: after a run every copied table holds at most the source
\* rows, and rows are missing only when an insert error was logged.
C4_MissingRowsLogged ==
    exit = "ok" =>
        \A t \in TableNames :
            (t \in returned /\ "finalCommit" \in issued[t]) =>
                /\ tbl[t].rows <= SrcRows(t)
                /\ tbl[t].rows < SrcRows(t) => <<"ERROR insert", t>> \in log

\* C4 amended: a target table never holds more rows than its source table;
\* the rows that are missing leave no line in the log.
C4_RowsAtMostSource ==
    \A t \in TableNames : tbl[t].rows <= SrcRows(t)

C4_Witness ==
    /\ exit = "ok"
    /\ \E t \in TableNames :
          /\ t \in returned /\ "insert" \in issued[t] /\ "finalCommit" \in issued[t]
          /\ tbl[t].exists /\ tbl[t].rows < SrcRows(t)
          /\ ~\E l \in log : l[2] = t /\ l[1] # "OK rows"

\* C5: two runs back-to-back with the same operation outcomes leave the
\* target (tables, rows, primary keys, foreign keys) as the first run left it.
C5_Idempotent ==
    (run = 2 /\ exit = "ok") => Target = snapshot

\* C6: the process terminates early only on a configuration error or a
\* target-connect error, both logged as fatal; no failure inside a table
\* copy or the FK phase ends it.
C6_OnlyFatalTerminates ==
    exit \in {"fatal", "panic"} => \E l \in log : l[1] = "FATAL"

\* C7: a table whose source SELECT failed on all MaxRetries attempts gets no
\* statement on the target, keeps the table state the run found and hands
\* over no foreign-key descriptor.
C7_AbandonedOnReadFailure ==
    \A t \in TableNames :
        <<"ERROR read", t>> \in log =>
            /\ attempts[t] = MaxRetries
            /\ issued[t] = {}
            /\ tbl[t] = snapshot.tbl[t]
            /\ ~\E fk \in Emitted : fk.tab = t

C7_Witness ==
    /\ exit = "ok"
    /\ \E t \in TableNames :
          /\ <<"ERROR read", t>> \in log
          /\ SrcFKRows(t) # << >>
          /\ snapshot.tbl[t].exists

\* C8: the source SELECT of a table is issued at most MaxRetries times, one
\* attempt at a time, and never again once an attempt has succeeded or the
\* copy has returned.
C8_QueryRetries ==
    [][\A t \in TableNames :
          attempts'[t] # attempts[t] =>
             /\ attempts'[t] = attempts[t] + 1
             /\ attempts'[t] <= MaxRetries
             /\ ~Opened(t)
             /\ t \notin returned]_vars

C8_Witness ==
    \E t \in TableNames :
        /\ attempts[t] = MaxRetries /\ t \in returned
        /\ "finalCommit" \in issued[t] /\ "insert" \notin issued[t]
        /\ SrcRows(t) >= 2

\* C9: a database whose source connection or catalog query failed gets no
\* worker pool, no statement on any of its tables and no foreign key, and
\* main goes on to the next database of the list.
C9_SkippedDatabase ==
    \A k \in 1..NDB :
        Skipped(SourceDBs[k]) =>
            /\ SourceDBs[k] \notin spawned
            /\ \A t \in TableNames :
                  DbOf(t) = SourceDBs[k] =>
                      /\ issued[t] = {} /\ attempts[t] = 0
                      /\ tbl[t] = snapshot.tbl[t]
            /\ \A i \in 1..Len(fkExec) : fkExec[i].db # SourceDBs[k]
            /\ {c \in fks : DbOf(c.tab) = SourceDBs[k]}
                  = {c \in snapshot.fks : DbOf(c.tab) = SourceDBs[k]}
            /\ k < NDB => dbi > k

C9_Witness ==
    /\ Skipped(SourceDBs[1])
    /\ SourceDBs[NDB] \in spawned
    /\ NonIgnored(SourceDBs[NDB]) \subseteq returned

\* C10: a table exists in the target only if its namespace exists, and
\* CREATE SCHEMA has been issued for a database before any DROP TABLE or
\* CREATE TABLE of one of its tables.
C10_NamespaceBeforeTables ==
    \A t \in TableNames :
        /\ tbl[t].exists => DbOf(t) \in schemas
        /\ issued[t] \cap {"drop", "create"} # {} => DbOf(t) \in nsTried

C10_Witness ==
    \E t \in TableNames :
        /\ "create" \in issued[t] /\ tbl[t].exists
        /\ ~snapshot.tbl[t].exists
        /\ DbOf(t) \in nsTried

\* C11: the source databases are processed one after the other in the order
\* of SourceDBs: main moves to database k+1 only when the FK phase of
\* database k is over or database k was given up, with no worker of k left
\* running, and every statement, source SELECT and target change of a step
\* belongs to the database being processed; the tables of one database are
\* copied by several workers at the same time.
C11_SequentialDatabases ==
    [][/\ dbi' # dbi =>
            /\ dbi' = dbi + 1
            /\ \/ pcMain = "applyFKs" /\ allFks = << >>
               \/ pcMain \in {"msOpen", "list"} /\ \E d \in {curDB} : Skipped(d)'
            /\ \A w \in Workers : wk[w].pc \in {"off", "exited"}
       /\ \A t \in TableNames :
            (issued'[t] # issued[t] \/ attempts'[t] # attempts[t] \/ tbl'[t] # tbl[t])
                => DbOf(t) = curDB
       /\ nsTried' \subseteq nsTried \cup {curDB}
       /\ spawned' \subseteq spawned \cup {curDB}
       /\ FKStep => fkExec'[Len(fkExec')].db = curDB
       /\ \A w \in Workers : wk'[w].table # << >> => DbOf(wk'[w].table) = curDB']_vars

C11_Witness ==
    /\ dbi = NDB
    /\ NonIgnored(SourceDBs[1]) \subseteq returned
    /\ \E v, w \in Workers :
          /\ v # w
          /\ wk[v].pc = "rows" /\ wk[w].pc = "rows"
          /\ wk[v].table # wk[w].table
          /\ wk[v].pos > 0 /\ wk[w].pos > 0

\* C12: within one database a table is handed to a worker only once and to
\* one worker only (it is a table of the filtered list, nobody holds it and
\* nothing was done for it before), two workers never hold the same table,
\* at most MaxWorkers copies are in flight, and when the FK phase starts the
\* channel is empty and every table of the list has been copied and returned.
C12_EachTableOnce ==
    [][/\ \A w \in Workers :
            (wk'[w].table # wk[w].table /\ wk'[w].table # << >>) =>
                /\ wk'[w].table \in NonIgnored(curDB)
                /\ attempts[wk'[w].table] = 0
                /\ issued[wk'[w].table] = {}
                /\ wk'[w].table \notin returned
                /\ \A v \in Workers : wk[v].table # wk'[w].table
       /\ \A v, w \in Workers :
            (v # w /\ wk'[v].table # << >>) => wk'[v].table # wk'[w].table
       /\ Cardinality({w \in Workers : wk'[w].table # << >>}) <= MaxWorkers
       /\ pcMain' = "applyFKs" =>
            /\ jobs' = << >>
            /\ \A w \in Workers : wk'[w].table = << >>
            /\ \A t \in NonIgnored(curDB) : t \in returned' /\ attempts'[t] >= 1]_vars

C12_Witness ==
    /\ pcMain = "applyFKs"
    /\ Cardinality(NonIgnored(curDB)) >= MaxWorkers
    /\ NonIgnored(curDB) \subseteq returned
    /\ \A t \in NonIgnored(curDB) : "finalCommit" \in issued[t]

\* the copy of t is complete on the target: all rows and the primary key
FullyCopied(t) ==
    /\ t \in returned
    /\ tbl[t].exists /\ tbl[t].rows = SrcRows(t)
    /\ SrcPK(t) # << >> => tbl[t].pk

\* C13: after a run in which no call failed, every foreign key of the source
\* between two non-ignored, fully copied tables exists on the target table
\* under the name fk_<table>_<column>_<referenced table> cut to NameMax
\* characters, also when two foreign keys of one table get the same name.
C13_EveryForeignKeyInstalled ==
    (exit = "ok" /\ nfaults = 0) =>
        \A t \in TableNames : \A i \in 1..Len(SrcFKRows(t)) :
            LET r == SrcFKRows(t)[i] IN
            (/\ ~isIgnoredTable(t) /\ ~isIgnoredTable(r.refTable)
             /\ FullyCopied(t) /\ FullyCopied(r.refTable)) =>
                \E c \in fks :
                    /\ c.tab = t /\ c.col = r.col /\ c.refTable = r.refTable
                    /\ c.ConstraintName = Truncate(FkName(t, r.col, r.refTable))
                    /\ Len(c.ConstraintName) <= NameMax

\* the trimmed names of the catalog of database d that the ignore policy
\* matches
IgnoredOf(d) ==
    {t \in {TrimSpace(Catalog(d)[i]) : i \in 1..Len(Catalog(d))} : isIgnoredTable(t)}

\* the trimmed names of all catalogs that the ignore policy matches
IgnoredNames ==
    LET rows == UNION {Range(StdCatalog(d)) \cup Range(WideCatalog(d)) : d \in Range(SourceDBs)}
    IN  {t \in {TrimSpace(n) : n \in rows} : isIgnoredTable(t)}

\* nothing has been done for table t in this run
Untouched(t) ==
    /\ t \notin Range(tables) /\ t \notin Range(jobs)
    /\ \A w \in Workers : wk[w].table # t
    /\ issued[t] = {} /\ attempts[t] = 0 /\ t \notin returned
    /\ tbl[t] = snapshot.tbl[t]
    /\ ~\E fk \in Emitted : fk.tab = t

\* C14 as stated: a catalog table matched by the ignore policy is never
\* enqueued, gets no DROP or CREATE and no foreign-key descriptor, and once
\* the catalog of its database has been listed a log line names it.
C14_IgnoredNeverCopiedAndLogged ==
    \A k \in 1..NDB : \A t \in IgnoredOf(SourceDBs[k]) :
        /\ Untouched(t)
        /\ <<"INFO tables", <<SourceDBs[k]>>>> \in log => \E l \in log : l[2] = t

\* C14 amended: a catalog table matched by the ignore policy (after trimming
\* and lowercasing its name) is never enqueued, gets no DROP or CREATE and
\* no foreign-key descriptor, and no log line names it.
C14_IgnoredNeverCopied ==
    \A t \in IgnoredNames :
        /\ Untouched(t)
        /\ ~\E l \in log : l[2] = t

C14_Witness ==
    /\ pcMain = "applyFKs" /\ allFks = << >> /\ fkExec # << >>
    /\ NonIgnored(curDB) \subseteq returned
    /\ \E t \in IgnoredOf(curDB) :
          /\ t # ToLower(t)
          /\ SrcFKRows(t) # << >>
          /\ \E i \in 1..Len(Catalog(curDB)) :
                Catalog(curDB)[i] # t /\ TrimSpace(Catalog(curDB)[i]) = t

\* the byte sequence s holds a 0x00 byte
HasNul(s) == \E i \in 1..Len(s) : s[i] = 0

\* C15: a value handed to the insert for a column that the type mapper
\* declared TEXT holds no 0x00 byte, whatever the source type name
\* (unknown names included) and whatever the shape of the scanned value.
C15_NoNulInText ==
    (finalVal # NoValue /\ pgType.name = "TEXT") => ~HasNul(finalVal.b)

\* C16: for a column that the type mapper declares BYTEA (BINARY, VARBINARY,
\* IMAGE, TIMESTAMP_SQL) the value handed to the insert holds the bytes of
\* the scanned byte sequence, all of them and in their order, 0x00 bytes
\* included.
C16_ByteaUnchanged ==
    (finalVal # NoValue /\ pgType.name = "BYTEA" /\ cell.v.kind = "bytes")
        => finalVal.kind \in {"bytes", "string"} /\ finalVal.b = cell.v.b

\* C18: for a raw byte sequence scanned from a column whose type name is BIT
\* or BOOLEAN the value handed to the insert is a boolean, true exactly when
\* the sequence is not empty and its first byte is 0x01; it is neither nil
\* nor a text.
C18_BitToBoolean ==
    (/\ finalVal # NoValue /\ cell.typed /\ cell.v.kind = "bytes"
     /\ cell.typeName \in {<<"B", "I", "T">>, <<"b", "i", "t">>,
                           <<"B", "O", "O", "L", "E", "A", "N">>})
        => /\ finalVal.kind = "bool"
           /\ finalVal.f = (cell.v.b # << >> /\ cell.v.b[1] = 1)

C18_Witness ==
    /\ cell.typed /\ cell.typeName = <<"b", "i", "t">>
    /\ cell.v.kind = "bytes" /\ Len(cell.v.b) = MaxLen
    /\ cell.v.b[1] = 65 /\ cell.v.b[MaxLen] = 1
    /\ finalVal = Value("bool", << >>, FALSE)

\* C17: when the target host, the source host or the source password is not
\* set, main ends with a fatal log line before any call that reaches a
\* database: no connection is tried, no CREATE SCHEMA is issued, no worker
\* is started and no table or foreign key of the target is touched.
C17_MissingConfigAborts ==
    ~({"PG_HOST", "MSSQL_HOST", "MSSQL_PASS"} \subseteq env) =>
        /\ pcMain \in {"validate", "exited"}
        /\ exit \in {"running", "fatal"}
        /\ pcMain = "exited" => (exit = "fatal" /\ log = {<<"FATAL", <<"env">>>>})
        /\ pcMain = "validate" => log = {}
        /\ nfaults = 0 /\ dbi = 1
        /\ nsTried = {} /\ spawned = {} /\ fkExec = << >> /\ returned = {}
        /\ \A t \in TableNames : issued[t] = {} /\ attempts[t] = 0
        /\ \A w \in Workers : wk[w] = IdleWorker
        /\ Target = snapshot

C17_Witness ==
    /\ env = {"PG_HOST", "MSSQL_HOST"}
    /\ exit = "fatal" /\ pcMain = "exited"
    /\ \E t \in TableNames : snapshot.tbl[t].exists /\ tbl[t] = snapshot.tbl[t]

\* C19: the first target statement for a table whose cursor opened is its
\* DROP TABLE and the second its CREATE TABLE; while a worker stands between
\* the two, no step of another worker or of main issues a statement for the
\* table or changes it; a row is inserted only after the CREATE TABLE of the
\* table was issued and succeeded; a copy that returned without a read
\* error has issued both statements.
C19_DropThenCreate ==
    [][\A t \in TableNames :
          /\ issued'[t] # issued[t] =>
                \/ issued[t] = {} /\ issued'[t] = {"drop"}
                \/ issued[t] = {"drop"} /\ issued'[t] = {"drop", "create"}
                \/ {"drop", "create"} \subseteq issued[t]
          /\ \A w \in Workers :
                (/\ wk[w].pc = "create" /\ wk[w].table = t
                 /\ (issued'[t] # issued[t] \/ tbl'[t] # tbl[t])) =>
                    /\ issued'[t] = {"drop", "create"}
                    /\ wk'[w].pc # "create"
                    /\ \A v \in Workers \ {w} : wk'[v] = wk[v]
          /\ ("insert" \in issued'[t] /\ "insert" \notin issued[t]) =>
                /\ "create" \in issued[t]
                /\ <<"ERROR create", t>> \notin log
                /\ tbl[t].exists
          /\ (t \in returned' /\ <<"ERROR read", t>> \notin log') =>
                {"drop", "create"} \subseteq issued'[t]]_vars

C19_Witness ==
    \E v, w \in Workers :
        /\ wk[v].pc = "create" /\ snapshot.tbl[wk[v].table].exists
        /\ ~tbl[wk[v].table].exists
        /\ wk[w].pc = "rows" /\ wk[w].pos > 0 /\ snapshot.tbl[wk[w].table].exists
        /\ "insert" \in issued[wk[w].table]

\* C20: a worker has at most one transaction open; a transaction never
\* holds more than BatchSize inserts, and it holds exactly BatchSize when
\* the batch boundary is reached, where it is committed and the next one
\* begun; no transaction is committed twice; outside the part of the copy
\* between Begin and the final Commit no transaction is open: at the
\* primary-key statement and at every return all transactions begun have
\* been committed, one more than the number of full batches, also for a
\* table without rows and for a row count that is a multiple of BatchSize.
C20_TransactionsBatched ==
    \A w \in Workers :
        /\ wk[w].begun - wk[w].commits \in {0, 1}
        /\ wk[w].tx = "none" <=> wk[w].begun = wk[w].commits
        /\ wk[w].inTx <= BatchSize
        /\ wk[w].pc = "rows" =>
              /\ wk[w].inTx < BatchSize
              /\ wk[w].inTx = wk[w].count % BatchSize
              /\ wk[w].begun = (wk[w].count \div BatchSize) + 1
        /\ wk[w].pc = "batch" => wk[w].inTx = BatchSize
        /\ wk[w].pc \in {"pk", "fkq"} =>
              /\ wk[w].tx = "none"
              /\ wk[w].commits = (wk[w].count \div BatchSize) + 1
        /\ wk[w].pc \notin {"prepare", "rows", "batch", "commit"} => wk[w].tx = "none"

C20_Witness ==
    \E w \in Workers :
        /\ wk[w].pc = "pk"
        /\ wk[w].count = BatchSize
        /\ wk[w].commits = 2 /\ wk[w].begun = 2
        /\ tbl[wk[w].table].rows = BatchSize

\* no goroutine stands at a channel send that cannot proceed
NoBlockedSend ==
    /\ (pcMain = "enqueue" /\ enq < Len(tables)) => Len(jobs) < Len(tables)
    /\ \A w \in Workers : wk[w].pc = "send" => Len(fkChannel) < FkCap
    /\ Len(fkChannel) <= Cardinality(returned \cap Range(tables))

\* the pool of every database that was started has been wound up: jobs
\* drained, every worker exited, every descriptor executed
PoolsDone ==
    /\ jobs = << >> /\ fkChannel = << >> /\ allFks = << >>
    /\ \A w \in Workers : wk[w].pc \in {"off", "exited"}
    /\ \A k \in 1..NDB :
          SourceDBs[k] \in spawned =>
              Range(FilterTables(Catalog(SourceDBs[k]))) \subseteq returned

\* C21: whatever the number of tables of the list (none, fewer or more than
\* MaxWorkers), main never stands at a full jobs channel and no worker at a
\* full fkChannel (a table sends at most one message); every run comes to
\* an end, and unless a connection failure or a table copy that does not
\* return ended the process, it ends with main returning after every worker
\* has exited and the FK phase of every started database has finished.
C21_RunnerTerminates ==
    /\ []NoBlockedSend
    /\ [](exit = "ok" => PoolsDone)
    /\ <>(exit # "running")

C21_Witness ==
    /\ exit = "ok"
    /\ Len(FilterTables(Catalog(SourceDBs[1]))) = 0
    /\ Len(FilterTables(Catalog(SourceDBs[NDB]))) > MaxWorkers
    /\ Range(FilterTables(Catalog(SourceDBs[NDB]))) \subseteq returned
    /\ SourceDBs[1] \in spawned
    /\ Len(fkExec) >= MaxWorkers + 1

\* the number of descriptors held by the workers, the channel, the list of
\* applyForeignKeys and the executed statements
Held ==
    Len(Flatten([w \in Workers |-> wk[w].fks])) + Len(Flatten(fkChannel))
        + Len(allFks) + Len(fkExec)

\* C22: every descriptor a table copy has handed over is held exactly once
\* on its way to the target and, when main returns, has been executed
\* exactly once, the statements after a failed one included; every FK
\* statement that failed has a line in the log.
C22_EveryFKOnceAndLogged ==
    /\ Held = Cardinality(Emitted)
    /\ exit = "ok" =>
          /\ allFks = << >>
          /\ Len(fkExec) = Cardinality(Emitted)
          /\ {fkExec[i].fk : i \in 1..Len(fkExec)} = Emitted
    /\ \A i \in 1..Len(fkExec) :
          ~fkExec[i].ok => \E l \in log : l[2] = fkExec[i].fk.ConstraintName

\* the primary-key statement of t was issued and failed
PKFailed(t) == "pk" \in issued[t] /\ ~tbl[t].pk

\* C23: a table whose CREATE TABLE failed has returned with nothing but
\* its DROP and CREATE issued (no Begin, no insert, no commit, no primary
\* key) and without a foreign-key descriptor; a failed primary-key statement
\* leaves the table and its committed rows as they were, and the copy goes
\* on to the foreign-key query, whose descriptors it hands over.
C23_DDLFailures ==
    /\ [](\A t \in TableNames :
             <<"ERROR create", t>> \in log =>
                 /\ issued[t] = {"drop", "create"}
                 /\ t \in returned
                 /\ \A w \in Workers : wk[w].table # t
                 /\ ~\E fk \in Emitted : fk.tab = t)
    /\ [][\A w \in Workers :
            LET t == wk[w].table IN
            /\ (wk[w].pc = "pk" /\ wk'[w] # wk[w]) =>
                  /\ wk'[w].pc = "fkq"
                  /\ tbl'[t].exists /\ tbl'[t].rows = tbl[t].rows
            /\ (/\ wk[w].pc = "fkq" /\ PKFailed(t) /\ wk'[w] # wk[w]
                /\ nfaults' = nfaults) =>
                  /\ t \in returned'
                  /\ tbl'[t] = tbl[t]
                  /\ wk'[w].fks = getForeignKeys(t)
                  /\ wk'[w].pc = IF getForeignKeys(t) # << >> THEN "send" ELSE "recv"]_vars

C23_Witness ==
    /\ exit = "ok"
    /\ \E t, u \in TableNames :
          /\ <<"ERROR create", t>> \in log /\ SrcFKRows(t) # << >>
          /\ PKFailed(u) /\ u \in returned
          /\ SrcRows(u) > 0 /\ tbl[u].rows = SrcRows(u)
          /\ \E i \in 1..Len(fkExec) : fkExec[i].fk.tab = u

\* C24: in a table copy whose only failures are row inserts, every source
\* row read so far has been handed to the insert; the copy reaches the final
\* commit only with all source rows attempted, has committed every full
\* batch and the last transaction when it comes to the primary key, issues
\* the primary-key statement of a table that has a key, and returns the
\* foreign-key descriptors of the table.
C24_InsertFailureGoesOn ==
    /\ [](\A w \in Workers :
             (wk[w].failed /\ nfaults = 1) =>
                 LET t == wk[w].table IN
                 /\ wk[w].pc \in {"rows", "batch", "commit", "pk", "fkq"}
                 /\ wk[w].count = wk[w].pos
                 /\ "insert" \in issued[t]
                 /\ wk[w].pc \in {"commit", "pk", "fkq"} => wk[w].count = SrcRows(t)
                 /\ wk[w].pc \in {"pk", "fkq"} =>
                       /\ "finalCommit" \in issued[t]
                       /\ wk[w].commits = (SrcRows(t) \div BatchSize) + 1
                 /\ (wk[w].pc = "fkq" /\ SrcPK(t) # << >>) => "pk" \in issued[t])
    /\ [][\A w \in Workers :
            (/\ wk[w].failed /\ wk[w].pc = "fkq" /\ wk'[w] # wk[w]
             /\ nfaults' = nfaults) =>
                /\ wk[w].table \in returned'
                /\ wk'[w].fks = getForeignKeys(wk[w].table)]_vars

C24_Witness ==
    \E w \in Workers :
        /\ wk[w].pc = "fkq" /\ nfaults = 1
        /\ wk[w].failed
        /\ SrcRows(wk[w].table) > BatchSize
        /\ wk[w].count = SrcRows(wk[w].table)
        /\ tbl[wk[w].table].rows > 0 /\ tbl[wk[w].table].rows < SrcRows(wk[w].table)
        /\ getForeignKeys(wk[w].table) # << >>

====
